---- MODULE Spec2Model ----
(***************************************************************************)
(* Treemap of fund sizes: the scale-to-alpha mapper (computeAlpha,         *)
(* mapData) of the plain script (src/02.矩形树图.js) and of the two Vue    *)
(* components TreeMap (src/unnamed/part_000, lines 1-193 and 194-444),     *)
(* and the components' chart lifecycle (chartDraw, watchers, hooks).       *)
(*                                                                         *)
(* JavaScript values are records [type, v]: type is "number", "NaN",       *)
(* "Infinity", "-Infinity", "undefined", "null" or "string" (a string that *)
(* is not numeric). A scale is a number in whole units; an alpha is a      *)
(* number in units of 1/FP.                                                *)
(***************************************************************************)
EXTENDS Integers, Sequences, FiniteSets

VARIABLES
    variant,      \* which program: "script", "TreeMap" or "TreeMapClick"
    src,          \* the argument of the mapData call under study
    treemapData,  \* its result
    divisions,    \* how many divisions that call performed
    called,       \* whether mapData has been applied to src
    chartData,    \* props.chartData
    fontSize,     \* props.fontSize
    lifecycle,    \* "setup", "mounted" or "unmounted"
    chartDom,     \* chartDom.value is an element
    treeMapChart, \* 0: the initial reactive({}), else the handle it refers to
    charts,       \* every handle echarts.init has returned
    optionData,   \* option.series[0].data
    pending,      \* nextTick callbacks not yet run
    clicked,      \* per click, the input record of the rectangle clicked
    emitted       \* the payloads of the graph-click events emitted

mapVars == <<variant, src, treemapData, divisions, called>>
compVars == <<chartData, fontSize, lifecycle, chartDom, treeMapChart, charts,
              optionData, pending, clicked, emitted>>
vars == <<mapVars, compVars>>

----------------------------------------------------------------------------
\* Bounds of the model.

MaxLen == 3         \* longest argument of mapData drawn freely
MaxCharts == 3      \* echarts.init calls in one run
MaxPending == 2     \* nextTick callbacks waiting at once
MaxClicks == 2      \* clicks in one run

----------------------------------------------------------------------------
\* JavaScript values.

Num(n) == [type |-> "number", v |-> n]
NaN == [type |-> "NaN", v |-> 0]
PosInf == [type |-> "Infinity", v |-> 0]
NegInf == [type |-> "-Infinity", v |-> 0]
Undefined == [type |-> "undefined", v |-> 0]
Null == [type |-> "null", v |-> 0]
Str == [type |-> "string", v |-> 0]

IsNum(x) == x.type = "number"

\* ToNumber, as applied by Number(), Math.min, Math.max and the - operator.
ToNumber(x) ==
    CASE x.type = "undefined" -> NaN
      [] x.type = "null" -> Num(0)
      [] x.type = "string" -> NaN
      [] OTHER -> x

\* a || 0
OrZero(a) ==
    IF a.type = "NaN" \/ (IsNum(a) /\ a.v = 0) THEN Num(0) ELSE a

\* a < b on numbers (false when either is NaN).
Less(a, b) ==
    /\ a.type # "NaN" /\ b.type # "NaN"
    /\ \/ a.type = "-Infinity" /\ b.type # "-Infinity"
       \/ b.type = "Infinity" /\ a.type # "Infinity"
       \/ IsNum(a) /\ IsNum(b) /\ a.v < b.v

\* a === b on numbers (NaN equals nothing).
StrictEq(a, b) ==
    /\ a.type # "NaN" /\ b.type # "NaN"
    /\ a.type = b.type
    /\ IsNum(a) => a.v = b.v

RECURSIVE MathMinFrom(_, _, _)
MathMinFrom(s, i, acc) ==
    IF i > Len(s) THEN acc
    ELSE LET x == ToNumber(s[i])
         IN  MathMinFrom(s, i + 1,
                 IF acc.type = "NaN" \/ x.type = "NaN" THEN NaN
                 ELSE IF Less(x, acc) THEN x ELSE acc)

\* Math.min(...s): Infinity for no argument, NaN when any argument is NaN.
MathMin(s) == MathMinFrom(s, 1, PosInf)

RECURSIVE MathMaxFrom(_, _, _)
MathMaxFrom(s, i, acc) ==
    IF i > Len(s) THEN acc
    ELSE LET x == ToNumber(s[i])
         IN  MathMaxFrom(s, i + 1,
                 IF acc.type = "NaN" \/ x.type = "NaN" THEN NaN
                 ELSE IF Less(acc, x) THEN x ELSE acc)

\* Math.max(...s): -Infinity for no argument, NaN when any argument is NaN.
MathMax(s) == MathMaxFrom(s, 1, NegInf)

----------------------------------------------------------------------------
\* Fixed-point arithmetic standing for the doubles: one unit is 1/FP.

FP == 1000 * 1000

\* a * b / FP for 0 <= a, b <= 2 * FP, without leaving 32 bits.
MulFP(a, b) ==
    LET ah == a \div 1000
        al == a % 1000
        bh == b \div 1000
        bl == b % 1000
    IN  ah * bh + (ah * bl + al * bh + (al * bl) \div 1000) \div 1000

\* Math.PI
PI == 3141593

\* PI * n / d, rounded, for 0 <= n / d <= 1/4.
Theta(n, d) == (PI * n + d \div 2) \div d

\* cos(th) for 0 <= th <= PI / 4 (series to th^8).
CosSmall(th) ==
    LET p2 == MulFP(th, th)
        p4 == MulFP(p2, p2)
        p6 == MulFP(p4, p2)
        p8 == MulFP(p4, p4)
    IN  FP - p2 \div 2 + p4 \div 24 - p6 \div 720 + p8 \div 40320

\* sin(th) for 0 <= th <= PI / 4 (series to th^9).
SinSmall(th) ==
    LET p2 == MulFP(th, th)
        p3 == MulFP(p2, th)
        p5 == MulFP(p3, p2)
        p7 == MulFP(p5, p2)
        p9 == MulFP(p7, p2)
    IN  th - p3 \div 6 + p5 \div 120 - p7 \div 5040 + p9 \div 362880

\* cos(PI * p / q) for 0 <= p / q <= 1/2.
CosPiLow(p, q) ==
    IF 4 * p > q THEN SinSmall(Theta(q - 2 * p, 2 * q))
    ELSE CosSmall(Theta(p, q))

\* Math.cos(Math.PI * p / q) for 0 <= p / q <= 1.
MathCosPi(p, q) ==
    IF 2 * p > q THEN 0 - CosPiLow(q - p, q) ELSE CosPiLow(p, q)

----------------------------------------------------------------------------
\* The mapper.

BASE_RGB == <<87, 129, 253>>
MIN_ALPHA == 500000
MAX_ALPHA == 900000

Variants == {"script", "TreeMap", "TreeMapClick"}
Components == {"TreeMap", "TreeMapClick"}

\* Math.min(a, b) and Math.max(a, b) on finite numbers.
Min2(a, b) == IF a < b THEN a ELSE b
Max2(a, b) == IF a > b THEN a ELSE b

\* Whether computeAlpha(scale, min, max) goes past its first line and divides.
Divides(min, max) == ~StrictEq(max, min)

\* computeAlpha(scale, min, max); the three functions are the same text. NaN goes
\* through -, /, Math.max, Math.min, Math.cos, * and + and comes out as NaN. (An
\* infinite min or max is what Math.min() and Math.max() give for an empty src,
\* and no record is then mapped.)
computeAlpha(scale, min, max) ==
    LET s == ToNumber(scale)
    IN  IF ~Divides(min, max) THEN Num(MAX_ALPHA)
        ELSE IF ~(IsNum(s) /\ IsNum(min) /\ IsNum(max)) THEN NaN
        ELSE LET q == max.v - min.v
                 p == Max2(0, Min2(q, s.v - min.v))
                 t == (FP - MathCosPi(p, q)) \div 2
             IN  Num(Min2(MAX_ALPHA,
                          Max2(MIN_ALPHA,
                               MIN_ALPHA + MulFP(t, MAX_ALPHA - MIN_ALPHA))))

\* a.toFixed(3): the text "NaN", or the alpha in thousandths.
toFixed3(a) ==
    IF a.type = "NaN" THEN [nan |-> TRUE, milli |-> 0]
    ELSE [nan |-> FALSE, milli |-> (a.v + 500) \div 1000]

\* `rgba(${BASE_RGB[0]}, ${BASE_RGB[1]}, ${BASE_RGB[2]}, ${a.toFixed(3)})`
rgba(a) == [rgb |-> BASE_RGB, alpha |-> toFixed3(a)]

\* The scale field of every record, as the script reads it.
ScriptScales(s) == [i \in 1..Len(s) |-> s[i].scale]

\* mapData of the script. An absent field of the output (raw, label) is <<>>.
ScriptMapData(s) ==
    LET scales == ScriptScales(s)
        min == MathMin(scales)
        max == MathMax(scales)
    IN  [i \in 1..Len(s) |->
            LET d == s[i]
                a == computeAlpha(d.scale, min, max)
            IN  [name |-> d.name,
                 value |-> d.scale,
                 fund_name |-> d.name,
                 scale |-> d.scale,
                 raw |-> <<>>,
                 itemStyle |-> [color |-> rgba(a)],
                 label |-> <<>>]]

\* Number(d?.[scaleKey]) || 0
ScaleVal(d) == OrZero(ToNumber(d.scale))

\* An output record without the reference to its input record.
ComponentItemNoRaw(d, min, max, fs) ==
    LET scaleVal == ScaleVal(d)
        nameVal == d.name
        a == computeAlpha(scaleVal, min, max)
    IN  [name |-> nameVal,
         value |-> scaleVal,
         fund_name |-> nameVal,
         scale |-> scaleVal,
         raw |-> <<>>,
         itemStyle |-> [color |-> rgba(a)],
         label |-> <<[show |-> TRUE, fontSize |-> fs, overflow |-> "truncate"]>>]

\* One output record of the components' mapData.
ComponentItem(d, min, max, fs) ==
    LET scaleVal == ScaleVal(d)
        nameVal == d.name
        a == computeAlpha(scaleVal, min, max)
    IN  [name |-> nameVal,
         value |-> scaleVal,
         fund_name |-> nameVal,
         scale |-> scaleVal,
         raw |-> <<d>>,
         itemStyle |-> [color |-> rgba(a)],
         label |-> <<[show |-> TRUE, fontSize |-> fs, overflow |-> "truncate"]>>]

\* mapData leaving out the records whose scale is 0.
mapDataSkipZero(s, fs) ==
    LET kept == SelectSeq(s, LAMBDA d : ScaleVal(d) # Num(0))
    IN  IF Len(kept) = 0 THEN <<>>
        ELSE LET scales == [i \in 1..Len(kept) |-> ScaleVal(kept[i])]
                 min == MathMin(scales)
                 max == MathMax(scales)
             IN  [i \in 1..Len(kept) |-> ComponentItem(kept[i], min, max, fs)]

\* mapData of the components, with props.fontSize = fs.
mapData(s, fs) ==
    IF Len(s) = 0 THEN <<>>
    ELSE LET scales == [i \in 1..Len(s) |-> ScaleVal(s[i])]
             min == MathMin(scales)
             max == MathMax(scales)
         IN  [i \in 1..Len(s) |-> ComponentItem(s[i], min, max, fs)]

\* The divisions one call of mapData performs: one per record, unless max === min.
ScriptDivisions(s) ==
    IF Divides(MathMin(ScriptScales(s)), MathMax(ScriptScales(s))) THEN Len(s) ELSE 0

ComponentDivisions(s) ==
    LET scales == [i \in 1..Len(s) |-> ScaleVal(s[i])]
    IN  IF Len(s) > 0 /\ Divides(MathMin(scales), MathMax(scales)) THEN Len(s) ELSE 0

----------------------------------------------------------------------------
\* Inputs.

Names == {"A", "B"}
ScaleValues == {Num(0), Num(50), Num(100), Num(200), Undefined, Null, Str}
Records == [name : Names, scale : ScaleValues, extra : {"x"}]

Rec(n, sc, e) == [name |-> n, scale |-> sc, extra |-> e]

\* The three inputs the specification's scenarios name.
ScenarioABCD ==
    <<Rec("A", Num(200), "a"), Rec("B", Num(150), "b"),
      Rec("C", Num(100), "c"), Rec("D", Num(50), "d")>>
ScenarioXY == <<Rec("X", Num(10), "x"), Rec("Y", Num(10), "y")>>
ScenarioZ == <<Rec("Z", Undefined, "z")>>

SeqsUpTo(S, n) == UNION {[1..k -> S] : k \in 0..n}

Inputs == SeqsUpTo(Records, MaxLen) \cup {ScenarioABCD, ScenarioXY, ScenarioZ}

DefaultFontSize == 12

----------------------------------------------------------------------------
\* The mapper as a function: one call, on any input, in any of the programs.

CompIdle ==
    /\ chartData = <<>>
    /\ fontSize = DefaultFontSize
    /\ lifecycle = "setup"
    /\ chartDom = FALSE
    /\ treeMapChart = 0
    /\ charts = <<>>
    /\ optionData = <<>>
    /\ pending = <<>>
    /\ clicked = <<>>
    /\ emitted = <<>>

InitMap ==
    /\ variant \in Variants
    /\ src \in Inputs
    /\ treemapData = <<>>
    /\ divisions = 0
    /\ called = FALSE
    /\ CompIdle

\* const treemapData = mapData(rawData); window.updateTreemap(nextRawData)
CallScript ==
    /\ variant = "script"
    /\ ~called
    /\ treemapData' = ScriptMapData(src)
    /\ divisions' = ScriptDivisions(src)
    /\ called' = TRUE
    /\ UNCHANGED <<variant, src, compVars>>

\* option.series[0].data = mapData(props.chartData)
CallComponent ==
    /\ variant \in Components
    /\ ~called
    /\ treemapData' = mapData(src, fontSize)
    /\ divisions' = ComponentDivisions(src)
    /\ called' = TRUE
    /\ UNCHANGED <<variant, src, compVars>>

NextMap == CallScript \/ CallComponent

SpecMap == InitMap /\ [][NextMap]_vars

----------------------------------------------------------------------------
\* Properties of the mapper (checked under SpecMap).

Alpha(o) == o.itemStyle.color.alpha
AlphaIs(o, m) == Alpha(o) = [nan |-> FALSE, milli |-> m]
Malformed(x) == x.type \in {"undefined", "null", "string"}

\* The input with every malformed scale written as the number 0.
Zeroed(s) ==
    [i \in 1..Len(s) |->
        IF Malformed(s[i].scale) THEN [s[i] EXCEPT !.scale = Num(0)] ELSE s[i]]

\* What the program at hand makes of an input.
MapOf(s) == IF variant = "script" THEN ScriptMapData(s) ELSE mapData(s, fontSize)

\* C1: in every variant the output has the length of the input and its i-th record
\* carries the name and the scale of the i-th input record; an empty input gives an
\* empty output.
C1_SameLengthSameOrder ==
    called =>
        /\ Len(treemapData) = Len(src)
        /\ \A i \in 1..Len(src) :
              /\ treemapData[i].name = src[i].name
              /\ treemapData[i].fund_name = src[i].name
              /\ treemapData[i].value =
                    (IF variant = "script" THEN src[i].scale ELSE ScaleVal(src[i]))
              /\ treemapData[i].scale = treemapData[i].value
        /\ (src = <<>> => treemapData = <<>>)

C1_Witness ==
    /\ called
    /\ Len(src) = 3
    /\ src[1].name # src[2].name
    /\ src[2].scale # src[3].scale
    /\ Len(treemapData) = 3

\* C2: in every variant a record whose scale is missing, null or a non-numeric
\* string is in the output with value 0 and scale 0, and every alpha of the output
\* is the alpha the same input gives with that scale written as 0; [{name:'Z'}]
\* gives value 0, scale 0 and alpha 0.9.
C2_MalformedScaleIsZero ==
    called =>
        /\ Len(treemapData) = Len(src)
        /\ \A i \in 1..Len(src) :
              Malformed(src[i].scale) =>
                  /\ treemapData[i].value = Num(0)
                  /\ treemapData[i].scale = Num(0)
        /\ \A i \in 1..Len(src) : Alpha(treemapData[i]) = Alpha(MapOf(Zeroed(src))[i])
        /\ (src = ScenarioZ => AlphaIs(treemapData[1], 900))

\* C3: in every variant every alpha of the output is a number from 0.5 to 0.9.
C3_AlphaInBand ==
    called =>
        \A i \in 1..Len(treemapData) :
            /\ ~Alpha(treemapData[i]).nan
            /\ Alpha(treemapData[i]).milli >= 500
            /\ Alpha(treemapData[i]).milli <= 900

\* C4: when all records of the input have the same scale value (a single record
\* included), every alpha is 0.9 and the call divides nowhere.
C4_EqualScalesGiveMaxAlpha ==
    (called /\ \A i, j \in 1..Len(src) : src[i].scale = src[j].scale) =>
        /\ \A i \in 1..Len(treemapData) : AlphaIs(treemapData[i], 900)
        /\ divisions = 0

\* alpha(a) <= alpha(b), as numbers.
AlphaLeq(a, b) == ~Alpha(a).nan /\ ~Alpha(b).nan /\ Alpha(a).milli <= Alpha(b).milli
AlphaLess(a, b) == ~Alpha(a).nan /\ ~Alpha(b).nan /\ Alpha(a).milli < Alpha(b).milli

\* C5: within one call, scale(a) < scale(b) implies alpha(a) <= alpha(b).
C5_Monotonic ==
    called =>
        \A a, b \in 1..Len(src) :
            Less(ScaleVal(src[a]), ScaleVal(src[b])) =>
                AlphaLeq(treemapData[a], treemapData[b])

\* C6: when the scales are not all equal, a record of the largest scale has alpha
\* 0.9 and a record of the smallest scale has alpha 0.5; for 200, 150, 100, 50 the
\* alphas fall strictly from 0.9 to 0.5.
C6_ExtremesHitTheBand ==
    called =>
        /\ \A i \in 1..Len(src) :
              (\E j \in 1..Len(src) : ScaleVal(src[j]) # ScaleVal(src[i])) =>
                  /\ (\A j \in 1..Len(src) : ~Less(ScaleVal(src[i]), ScaleVal(src[j])))
                        => AlphaIs(treemapData[i], 900)
                  /\ (\A j \in 1..Len(src) : ~Less(ScaleVal(src[j]), ScaleVal(src[i])))
                        => AlphaIs(treemapData[i], 500)
        /\ src = ScenarioABCD =>
              /\ AlphaIs(treemapData[1], 900)
              /\ AlphaLess(treemapData[2], treemapData[1])
              /\ AlphaLess(treemapData[3], treemapData[2])
              /\ AlphaLess(treemapData[4], treemapData[3])
              /\ AlphaIs(treemapData[4], 500)

----------------------------------------------------------------------------
\* The components: props, the chart handle, the watchers and the hooks.
\*
\* A nextTick callback is a promise reaction: it runs after the flush that
\* scheduled it, in the order scheduled, and other jobs (a further prop change,
\* the mount under a pending Suspense, the unmount queued by a post-flush hook)
\* can come before it. The model lets it run at any later point.

RecA == Rec("A", Num(200), "a")
RecB == Rec("B", Num(50), "b")
RecZ == Rec("Z", Undefined, "z")

\* The values props.chartData takes.
DataChoices == {<<>>, <<RecA>>, <<RecA, RecB>>, <<RecB, RecZ>>}
FontSizes == {DefaultFontSize, 14}

MapIdle ==
    /\ src = <<>>
    /\ treemapData = <<>>
    /\ divisions = 0
    /\ called = FALSE

\* A handle echarts.init returns: what it shows (data), the props.chartData that
\* data was mapped from (source, kept for the properties only), and how many
\* click handlers are bound to it. dispose() releases all of it.
NewChart(data, source, handlers) ==
    [disposed |-> FALSE, data |-> data, source |-> source, handlers |-> handlers]
DisposedChart == [disposed |-> TRUE, data |-> <<>>, source |-> <<>>, handlers |-> 0]

\* chartDraw without its first statement.
KeepCurrent(cs, h) == cs

\* if (treeMapChart) { try { treeMapChart.dispose() } catch (e) {} }
\* treeMapChart is never falsy; on the initial reactive({}) dispose is not a
\* function, and the TypeError is caught.
DisposeCurrent(cs, h) ==
    IF h = 0 THEN cs ELSE [cs EXCEPT ![h] = DisposedChart]

\* bindClick on a handle with n click handlers bound: off('click'), then on.
bindClick(n) == 0 + 1

\* The click handlers chartDraw leaves on the new handle.
HandlersAfterDraw == IF variant = "TreeMapClick" THEN bindClick(0) ELSE 0

\* emit('graph-click', info.data.raw)
ClickPayloadRaw(item) == item.raw[1]

\* emit('graph-click', info?.data): info.data is the data item of the rectangle.
ClickPayload(item) == item

\* chartDraw() with props.chartData = cd, props.fontSize = fs, and dom telling
\* whether chartDom.value is an element. echarts.init throws when it is none
\* (before the mount, after the unmount): chartDraw then ends after the dispose.
chartDraw(cd, fs, dom) ==
    LET cs == DisposeCurrent(charts, treeMapChart)
    IN  IF dom
        THEN /\ Len(charts) < MaxCharts
             /\ charts' = Append(cs, NewChart(mapData(cd, fs), cd, HandlersAfterDraw))
             /\ treeMapChart' = Len(charts) + 1
             /\ optionData' = mapData(cd, fs)
        ELSE /\ charts' = cs
             /\ UNCHANGED <<treeMapChart, optionData>>

\* After setup(): the immediate chartData watcher has scheduled its callback.
Init ==
    /\ variant \in Components
    /\ chartData \in DataChoices
    /\ fontSize \in FontSizes
    /\ lifecycle = "setup"
    /\ chartDom = FALSE
    /\ treeMapChart = 0
    /\ charts = <<>>
    /\ optionData = <<>>
    /\ pending = <<[kind |-> "draw", val |-> chartData]>>
    /\ clicked = <<>>
    /\ emitted = <<>>
    /\ MapIdle

\* The template ref is set, then onMounted(() => { chartDraw() }).
Mounted ==
    /\ lifecycle = "setup"
    /\ lifecycle' = "mounted"
    /\ chartDom' = TRUE
    /\ chartDraw(chartData, fontSize, TRUE)
    /\ UNCHANGED <<chartData, fontSize, pending, clicked, emitted, mapVars>>

\* watch(() => props.chartData, (val) => { nextTick(...) }, { deep: true })
ChartDataChanged ==
    /\ lifecycle # "unmounted"
    /\ Len(pending) < MaxPending
    /\ \E val \in DataChoices \ {chartData} :
          /\ chartData' = val
          /\ pending' = Append(pending, [kind |-> "draw", val |-> val])
    /\ UNCHANGED <<fontSize, lifecycle, chartDom, treeMapChart, charts, optionData,
                   clicked, emitted, mapVars>>

\* watch([() => props.width, () => props.height], ...): nextTick(resize)
SizeChanged ==
    /\ lifecycle # "unmounted"
    /\ Len(pending) < MaxPending
    /\ pending' = Append(pending, [kind |-> "resize", val |-> <<>>])
    /\ UNCHANGED <<chartData, fontSize, lifecycle, chartDom, treeMapChart, charts,
                   optionData, clicked, emitted, mapVars>>

\* watch(() => props.fontSize, () => { ...; chartDraw() })
FontSizeChanged ==
    /\ lifecycle # "unmounted"
    /\ \E fs \in FontSizes \ {fontSize} :
          /\ fontSize' = fs
          /\ chartDraw(chartData, fs, chartDom)
    /\ UNCHANGED <<chartData, lifecycle, chartDom, pending, clicked, emitted, mapVars>>

\* The callback of the chartData watcher: if (val && val.length) chartDraw()
RunDraw ==
    /\ pending # <<>>
    /\ Head(pending).kind = "draw"
    /\ pending' = Tail(pending)
    /\ IF Len(Head(pending).val) > 0
       THEN chartDraw(chartData, fontSize, chartDom)
       ELSE UNCHANGED <<treeMapChart, charts, optionData>>
    /\ UNCHANGED <<chartData, fontSize, lifecycle, chartDom, clicked, emitted, mapVars>>

\* The callback of the size watcher: try { treeMapChart.resize() } catch (e) {}
RunResize ==
    /\ pending # <<>>
    /\ Head(pending).kind = "resize"
    /\ pending' = Tail(pending)
    /\ UNCHANGED <<chartData, fontSize, lifecycle, chartDom, treeMapChart, charts,
                   optionData, clicked, emitted, mapVars>>

\* onBeforeUnmount(() => { treeMapChart?.dispose() }); the ref is then cleared.
BeforeUnmount ==
    /\ lifecycle = "mounted"
    /\ lifecycle' = "unmounted"
    /\ charts' = DisposeCurrent(charts, treeMapChart)
    /\ chartDom' = FALSE
    /\ UNCHANGED <<chartData, fontSize, treeMapChart, optionData, pending, clicked,
                   emitted, mapVars>>

\* A click on rectangle i of the chart on screen: every bound handler runs.
Click ==
    /\ lifecycle = "mounted"
    /\ treeMapChart # 0
    /\ ~charts[treeMapChart].disposed
    /\ Len(clicked) < MaxClicks
    /\ \E i \in 1..Len(charts[treeMapChart].data) :
          /\ clicked' = Append(clicked, charts[treeMapChart].source[i])
          /\ emitted' = emitted \o
                [k \in 1..charts[treeMapChart].handlers |->
                    ClickPayload(charts[treeMapChart].data[i])]
    /\ UNCHANGED <<chartData, fontSize, lifecycle, chartDom, treeMapChart, charts,
                   optionData, pending, mapVars>>

Next ==
    \/ Mounted
    \/ ChartDataChanged
    \/ SizeChanged
    \/ FontSizeChanged
    \/ RunDraw
    \/ RunResize
    \/ BeforeUnmount
    \/ Click

Spec == Init /\ [][Next]_vars

----------------------------------------------------------------------------
\* Properties of the components (checked under Spec).

Live == {h \in 1..Len(charts) : ~charts[h].disposed}
OutputFields == {"name", "value", "fund_name", "scale", "raw", "itemStyle", "label"}

\* C8, as claimed: in the component that declares graph-click every click emits
\* exactly one event, and its payload is the input record of the rectangle clicked.
C8_PayloadIsInputRecord ==
    variant = "TreeMapClick" =>
        /\ Len(emitted) = Len(clicked)
        /\ \A k \in 1..Len(emitted) : emitted[k] = clicked[k]

\* C8, amended: in that component every click, after any redraws, emits exactly
\* one event; its payload is the output record (info.data) of the rectangle
\* clicked, and the input record is that payload's raw field.
C8_PayloadIsOutputRecord ==
    variant = "TreeMapClick" =>
        /\ Len(emitted) = Len(clicked)
        /\ \A k \in 1..Len(emitted) :
              /\ DOMAIN emitted[k] = OutputFields
              /\ emitted[k].raw = <<clicked[k]>>
              /\ emitted[k].name = clicked[k].name
              /\ emitted[k].value = ScaleVal(clicked[k])

C8_Witness ==
    /\ variant = "TreeMapClick"
    /\ Len(charts) >= 2
    /\ Len(emitted) = 2
    /\ clicked[1] # clicked[2]

\* C9: once the component is mounted and no callback is waiting, the chart holds
\* mapData of the current props.chartData.
C9_ChartHoldsCurrentData ==
    (lifecycle = "mounted" /\ pending = <<>>) =>
        /\ treeMapChart # 0
        /\ ~charts[treeMapChart].disposed
        /\ charts[treeMapChart].data = mapData(chartData, fontSize)

\* C10: at most one handle is live, and it is the newest one and the one
\* treeMapChart refers to (every handle is disposed before its successor is
\* created); once the component is unmounted and no callback is waiting, no
\* handle is live.
C10_OneLiveHandle ==
    /\ Cardinality(Live) <= 1
    /\ \A h \in Live : h = treeMapChart /\ h = Len(charts)
    /\ (lifecycle = "unmounted" /\ pending = <<>>) => Live = {}

C10_Witness ==
    /\ lifecycle = "unmounted"
    /\ pending = <<>>
    /\ Len(charts) = 3
    /\ Live = {}

====
